---------------------------- MODULE Spec2Model ----------------------------
(***************************************************************************)
(* petgraph-wasm: the VecTree accessor over nested Vecs (js_helpers/       *)
(* vec_tree.rs), its views, and the SccGroups adapter built on it          *)
(* (js_helpers/scc_groups.rs).                                             *)
(*                                                                         *)
(* One reference-counted allocation (Rc<VecTreeInner>) is modelled at a    *)
(* time, together with everything that can hold it: VecTree handles,       *)
(* VecTreeViews and raw Rc clones handed out by VecTree::inner.  Every     *)
(* operation is one action; what the call returned (or the panic that      *)
(* ended it) is recorded in ret.                                           *)
(***************************************************************************)
EXTENDS Integers, Sequences, FiniteSets, TLC

VARIABLES
    inner,      \* contents of the Rc<VecTreeInner> allocation, or NoInner
    strong,     \* the Rc's strong count
    handles,    \* number of live VecTree handles outside of views
    views,      \* position -> number of live VecTreeViews at that position
    rcs,        \* number of live Rc<VecTreeInner> returned by VecTree::inner
    ret,        \* the call that has just returned (operation, receiver,
                \* argument, outcome), or NoCall once the caller has moved on
    given,      \* the constructor last called and the nested Vec passed to it
                \* (the caller's copy of the input), or NoInput
    graph,      \* the DiGraph under construction (graph_impl): its number of
                \* nodes and its edges in the order they were added
    groups      \* index -> number of live SccGroups with that index, of the
                \* Rc-based SccGroups / SccGroup pair (js_helpers/mod.rs)

vars == <<inner, strong, handles, views, rcs, ret, given, graph, groups>>

(***************************************************************************)
(* Bounds of the model.                                                    *)
(***************************************************************************)
MaxIndex == 1       \* indices passed to the accessor range over 0..MaxIndex
MaxStrong == 3      \* the strong count is not taken beyond this
MaxNodes == 3       \* a graph built call by call has at most this many nodes
MaxEdges == 3       \* and at most this many edges

Indices == 0..MaxIndex

NoInner == [variant |-> "none"]
NoInput == [ctor |-> "none", data |-> <<>>]

(***************************************************************************)
(* Option<T>, and the outcome of a call.                                   *)
(***************************************************************************)
None == <<>>
Some(x) == <<x>>
is_some(o) == Len(o) = 1
unwrap(o) == o[1]

Ret(v) == [tag |-> "ret", val |-> v]
Panic(msg) == [tag |-> "panic", val |-> msg]
View(o) == [tag |-> "View", val |-> o]
Item(o) == [tag |-> "Item", val |-> o]
Ok(v) == [tag |-> "Ok", val |-> v]
Err(v) == [tag |-> "Err", val |-> v]

\* <[T]>::get: the element at a zero-based index, None past the end
slice_get(v, i) == IF i < Len(v) THEN Some(v[i + 1]) ELSE None

\* Option::and_then(|x| x.get(i))
and_then_get(o, i) == IF is_some(o) THEN slice_get(unwrap(o), i) ELSE None

\* Option::and_then(|x| Some(x.len()))
and_then_len(o) == IF is_some(o) THEN Some(Len(unwrap(o))) ELSE None

(***************************************************************************)
(* Raw values and transforms.  A tree stores raw values (T1) and hands out *)
(* transform(raw) (T2).                                                    *)
(***************************************************************************)
NodeIndex_new(x) == [ix |-> x]
NodeIndex_index(n) == n.ix

\* the fn(&T1) -> T2 stored in the tree, applied to a raw value
transform(f, x) ==
    CASE f = "identity" -> x
      [] f = "is_even" -> (x % 2 = 0)
      [] f = "node_index" -> NodeIndex_index(x)

\* Option::and_then(|x| Some((self.transform)(x)))
and_then_transform(f, o) == IF is_some(o) THEN Some(transform(f, unwrap(o))) ELSE None

(***************************************************************************)
(* The three storage variants (VecTreeN).                                  *)
(***************************************************************************)
VecTree1_get_item(vt, position) ==
    IF Len(position) = 1
    THEN Ret(and_then_transform(vt.transform, slice_get(vt.data, position[1])))
    ELSE Panic("get_item for 1d VecTree, position should have length 1")

\* Faulty variant of VecTree2::get_item: indexes the Vecs directly
\* (self.data[position[0]][position[1]]), which panics past the end.
VecTree2_get_item_indexing(vt, position) ==
    IF Len(position) = 2
    THEN IF position[1] < Len(vt.data) /\ position[2] < Len(vt.data[position[1] + 1])
         THEN Ret(Some(transform(vt.transform, vt.data[position[1] + 1][position[2] + 1])))
         ELSE Panic("index out of bounds")
    ELSE Panic("get_item for 2d VecTree, position should have length 2")

VecTree2_get_item(vt, position) ==
    IF Len(position) = 2
    THEN Ret(and_then_transform(vt.transform,
                and_then_get(slice_get(vt.data, position[1]), position[2])))
    ELSE Panic("get_item for 2d VecTree, position should have length 2")

\* Faulty variant of VecTree3::get_item: the first two indices swapped.
VecTree3_get_item_swapped(vt, position) ==
    IF Len(position) = 3
    THEN Ret(and_then_transform(vt.transform,
                and_then_get(and_then_get(slice_get(vt.data, position[2]),
                                          position[1]),
                             position[3])))
    ELSE Panic("get_item for 3d VecTree, position should have length 3")

VecTree3_get_item(vt, position) ==
    IF Len(position) = 3
    THEN Ret(and_then_transform(vt.transform,
                and_then_get(and_then_get(slice_get(vt.data, position[1]),
                                          position[2]),
                             position[3])))
    ELSE Panic("get_item for 3d VecTree, position should have length 3")

\* Faulty variant of into_vecs: the outer Vec comes back in reverse order.
into_vecs_reversed(vt) == [i \in 1..Len(vt.data) |-> vt.data[Len(vt.data) + 1 - i]]

\* VecTreeN::into_vecs, the same for the three variants: the data, moved out
into_vecs(vt) == vt.data

\* Faulty variant of VecTreeInner::depth: the arms of Vt2D and Vt3D swapped.
depth_arms_swapped(vti) ==
    CASE vti.variant = "Vt1D" -> 1
      [] vti.variant = "Vt2D" -> 3
      [] vti.variant = "Vt3D" -> 2

\* VecTreeInner::depth
depth(vti) ==
    CASE vti.variant = "Vt1D" -> 1
      [] vti.variant = "Vt2D" -> 2
      [] vti.variant = "Vt3D" -> 3

(***************************************************************************)
(* VecTreeView: a clone of the handle plus a position.  The clone's share  *)
(* of the Rc is accounted for by the action that keeps the view.           *)
(***************************************************************************)
\* Faulty variant of VecTreeView::new: the position is not stored.
VecTreeView_new_unpositioned(position) == [position |-> <<>>]

VecTreeView_new(position) == [position |-> position]

\* The item arm of VecTree::get: a panic of get_item passes through
ItemOf(r) == IF r.tag = "panic" THEN r ELSE Item(r.val)

\* VecTreeN::get_item of the variant the tree holds
VecTreeN_get_item(vti, position) ==
    CASE vti.variant = "Vt1D" -> VecTree1_get_item(vti, position)
      [] vti.variant = "Vt2D" -> VecTree2_get_item(vti, position)
      [] vti.variant = "Vt3D" -> VecTree3_get_item(vti, position)

\* Faulty variant of VecTree::get: the catch-all arm answers an absent view
\* instead of panicking.
VecTree_get_catch_all_absent(vti, position) ==
    CASE Len(position) < depth(vti) -> View(Some(VecTreeView_new(position)))
      [] Len(position) = depth(vti) -> ItemOf(VecTreeN_get_item(vti, position))
      [] OTHER -> View(None)

\* Faulty variant of VecTree::get: the view arms reach one length too far, so
\* a position as long as the depth gets a view.
VecTree_get_view_arm_too_wide(vti, position) ==
    CASE Len(position) <= depth(vti) -> View(Some(VecTreeView_new(position)))
      [] OTHER -> Panic("accessing VecTree, position too long")

\* VecTree::get
VecTree_get(vti, position) ==
    CASE vti.variant = "Vt1D" ->
           (CASE Len(position) = 0 -> View(Some(VecTreeView_new(position)))
              [] Len(position) = 1 -> ItemOf(VecTree1_get_item(vti, position))
              [] OTHER -> Panic("accessing 1d VecTree, position should have length 0 to 1"))
      [] vti.variant = "Vt2D" ->
           (CASE Len(position) \in {0, 1} -> View(Some(VecTreeView_new(position)))
              [] Len(position) = 2 -> ItemOf(VecTree2_get_item(vti, position))
              [] OTHER -> Panic("accessing 2d VecTree, position should have length 0 to 2"))
      [] vti.variant = "Vt3D" ->
           (CASE Len(position) \in {0, 1, 2} -> View(Some(VecTreeView_new(position)))
              [] Len(position) = 3 -> ItemOf(VecTree3_get_item(vti, position))
              [] OTHER -> Panic("accessing 3d VecTree, position should have length 0 to 3"))

\* Faulty variant of VecTree::get_len: the catch-all arm answers None instead
\* of panicking.
VecTree_get_len_catch_all_none(vti, position) ==
    CASE Len(position) = 0 -> Ret(Some(Len(vti.data)))
      [] Len(position) = 1 /\ depth(vti) >= 2 ->
           Ret(and_then_len(slice_get(vti.data, position[1])))
      [] Len(position) = 2 /\ depth(vti) = 3 ->
           Ret(and_then_len(and_then_get(slice_get(vti.data, position[1]),
                                         position[2])))
      [] OTHER -> Ret(None)

\* Faulty variant of VecTree::get_len: the last index of the position is
\* left out, so the length is that of the enclosing Vec.
VecTree_get_len_parent(vti, position) ==
    CASE Len(position) = 0 -> Ret(Some(Len(vti.data)))
      [] Len(position) = 1 /\ depth(vti) >= 2 -> Ret(Some(Len(vti.data)))
      [] Len(position) = 2 /\ depth(vti) = 3 ->
           Ret(and_then_len(slice_get(vti.data, position[1])))
      [] OTHER -> Panic("to get len of VecTree, position too long")

\* Faulty variant of VecTree::get_len: a position as long as the depth (the
\* place of an item) answers None instead of panicking.
VecTree_get_len_item_none(vti, position) ==
    CASE Len(position) = 0 -> Ret(Some(Len(vti.data)))
      [] Len(position) = 1 /\ depth(vti) >= 2 ->
           Ret(and_then_len(slice_get(vti.data, position[1])))
      [] Len(position) = 2 /\ depth(vti) = 3 ->
           Ret(and_then_len(and_then_get(slice_get(vti.data, position[1]),
                                         position[2])))
      [] Len(position) = depth(vti) -> Ret(None)
      [] OTHER -> Panic("to get len of VecTree, position too long")

\* VecTree::get_len
VecTree_get_len(vti, position) ==
    CASE vti.variant = "Vt1D" ->
           (CASE Len(position) = 0 -> Ret(Some(Len(vti.data)))
              [] OTHER -> Panic("to get len of 1d VecTree, position should have length 0"))
      [] vti.variant = "Vt2D" ->
           (CASE Len(position) = 0 -> Ret(Some(Len(vti.data)))
              [] Len(position) = 1 ->
                   Ret(and_then_len(slice_get(vti.data, position[1])))
              [] OTHER -> Panic("to get len of 2d VecTree, position should have length 0 to 1"))
      [] vti.variant = "Vt3D" ->
           (CASE Len(position) = 0 -> Ret(Some(Len(vti.data)))
              [] Len(position) = 1 ->
                   Ret(and_then_len(slice_get(vti.data, position[1])))
              [] Len(position) = 2 ->
                   Ret(and_then_len(and_then_get(slice_get(vti.data, position[1]),
                                                 position[2])))
              [] OTHER -> Panic("to get len of 3d VecTree, position should have length 0 to 2"))

\* VecTreeView::current_depth
VecTreeView_current_depth(view) == Len(view.position)

\* VecTreeView::max_depth
VecTreeView_max_depth(vti, view) == depth(vti) - 1

\* VecTreeView::is_root
VecTreeView_is_root(view) == view.position = <<>>

\* Faulty variant of VecTreeView::is_leaf: the depth is compared as it is,
\* without the - 1.
VecTreeView_is_leaf_off_by_one(vti, view) == depth(vti) = Len(view.position)

\* VecTreeView::is_leaf
VecTreeView_is_leaf(vti, view) == depth(vti) - 1 = Len(view.position)

\* VecTreeView::len
VecTreeView_len(vti, view) ==
    LET r == VecTree_get_len(vti, view.position)
    IN  IF r.tag = "panic" THEN r
        ELSE IF is_some(r.val) THEN Ret(unwrap(r.val))
        ELSE Panic("Failed to get length for VecTreeView")

\* Faulty variant of VecTreeView::get_view: an Item is answered by a view at
\* the item's position instead of a panic.
VecTreeView_get_view_of_item(vti, view, index) ==
    LET position == Append(view.position, index)
        e == VecTree_get(vti, position)
    IN  CASE e.tag = "Item" -> Ret(Some(VecTreeView_new(position)))
          [] e.tag = "View" -> Ret(e.val)
          [] OTHER -> e

\* Faulty variant of VecTreeView::get_view: the index is put in front of the
\* view's position instead of behind it.
VecTreeView_get_view_index_first(vti, view, index) ==
    LET position == <<index>> \o view.position
        e == VecTree_get(vti, position)
    IN  CASE e.tag = "Item" -> Panic("got item instead of view")
          [] e.tag = "View" -> Ret(e.val)
          [] OTHER -> e

\* VecTreeView::get_view
VecTreeView_get_view(vti, view, index) ==
    LET position == Append(view.position, index)
        e == VecTree_get(vti, position)
    IN  CASE e.tag = "Item" -> Panic("got item instead of view")
          [] e.tag = "View" -> Ret(e.val)
          [] OTHER -> e

\* Faulty variant of VecTreeView::get_item: a View is answered by None
\* instead of a panic.
VecTreeView_get_item_none_for_view(vti, view, index) ==
    LET position == Append(view.position, index)
        e == VecTree_get(vti, position)
    IN  CASE e.tag = "View" -> Ret(None)
          [] e.tag = "Item" -> Ret(e.val)
          [] OTHER -> e

\* VecTreeView::get_item
VecTreeView_get_item(vti, view, index) ==
    LET position == Append(view.position, index)
        e == VecTree_get(vti, position)
    IN  CASE e.tag = "View" -> Panic("got view instead of item")
          [] e.tag = "Item" -> Ret(e.val)
          [] OTHER -> e

(***************************************************************************)
(* The SccGroups adapter: a depth-2 VecTree of NodeIndex, exposed as usize.*)
(***************************************************************************)
\* SccGroups::get_group
SccGroups_get_group(vti, index) ==
    LET e == VecTree_get(vti, <<index>>)
    IN  CASE e.tag = "View" /\ is_some(e.val) -> Ret(Some([view |-> unwrap(e.val)]))
          [] e.tag = "View" -> Ret(None)
          [] e.tag = "Item" -> Panic("SccGroups::get_group returned item")
          [] OTHER -> e

\* SccGroup::get_item
SccGroup_get_item(vti, group, index) == VecTreeView_get_item(vti, group.view, index)

\* SccGroup::len
SccGroup_len(vti, group) == VecTreeView_len(vti, group.view)

\* SccGroups::len
SccGroups_len(vti) ==
    LET e == VecTree_get(vti, <<>>)
    IN  CASE e.tag = "View" /\ is_some(e.val) -> VecTreeView_len(vti, unwrap(e.val))
          [] e.tag = "View" -> Ret(0)
          [] e.tag = "Item" -> Panic("SccGroups::len returned item")
          [] OTHER -> e

\* SccGroups::is_empty
SccGroups_is_empty(vti) ==
    LET r == SccGroups_len(vti)
    IN  IF r.tag = "panic" THEN r ELSE Ret(r.val = 0)

\* Faulty variant of SccGroups::to_arrays: each number is the place of the
\* node in its group instead of the node's index.
SccGroups_to_arrays_places(vti) ==
    IF vti.variant = "Vt2D"
    THEN Ret([i \in 1..Len(vti.data) |-> [j \in 1..Len(vti.data[i]) |-> j - 1]])
    ELSE Panic("SccGroups has wrong dimensional VecTree")

\* SccGroups::to_arrays: data_iter over the groups, each group mapped to the
\* array of its nodes' indices
SccGroups_to_arrays(vti) ==
    IF vti.variant = "Vt2D"
    THEN Ret([i \in 1..Len(vti.data) |->
                [j \in 1..Len(vti.data[i]) |-> NodeIndex_index(vti.data[i][j])]])
    ELSE Panic("SccGroups has wrong dimensional VecTree")

(***************************************************************************)
(* Inputs: the nested Vecs and transforms trees are built from, and the    *)
(* positions handed to get and get_len.                                    *)
(***************************************************************************)
Inputs1d ==
    { [data |-> <<0, 1, 2, 3>>, transform |-> "identity"],
      [data |-> <<0, 1, 2, 3>>, transform |-> "is_even"],
      [data |-> <<3>>, transform |-> "is_even"],
      [data |-> <<>>, transform |-> "identity"] }

Inputs2d ==
    { [data |-> << <<0, 1, 2, 3>>, <<4>> >>, transform |-> "identity"],
      [data |-> << <<1, 2>>, <<>> >>, transform |-> "is_even"],
      [data |-> << <<6, 7>> >>, transform |-> "identity"],
      [data |-> <<>>, transform |-> "identity"] }

Inputs3d ==
    { [data |-> << << <<0, 1, 2, 3>>, <<4>> >>, << <<5, 6>>, <<7, 8>> >> >>,
       transform |-> "identity"],
      [data |-> << << <<0, 1>>, <<2>> >>, << <<3>> >> >>, transform |-> "is_even"],
      [data |-> << << <<>> >> >>, transform |-> "identity"] }

InputsScc ==
    { << <<NodeIndex_new(0), NodeIndex_new(1), NodeIndex_new(2), NodeIndex_new(3)>>,
         <<NodeIndex_new(4)>> >>,
      << <<NodeIndex_new(2)>> >>,
      <<>> }

\* the sequences over Indices of length at most n
RECURSIVE SeqsUpTo(_)
SeqsUpTo(n) ==
    IF n = 0 THEN { <<>> }
    ELSE LET shorter == SeqsUpTo(n - 1)
         IN  shorter \cup { Append(q, i) : q \in shorter, i \in Indices }

\* the positions tried on a tree: every length up to one past its depth
Positions(vti) == SeqsUpTo(depth(vti) + 1)

\* the positions a view can have in some tree (VecTree::get makes views for
\* positions shorter than the depth, and the depth is at most 3)
ViewPositions == SeqsUpTo(2)

(***************************************************************************)
(* The directed graph of the petgraph crate (petgraph::graph::Graph), as   *)
(* DiGraph wraps it: nodes are numbered in the order they are added, edges *)
(* are kept in the order they are added, and the neighbours of a node are  *)
(* walked from the edge added last to the edge added first.                *)
(***************************************************************************)
\* Graph::with_capacity: no node, no edge
Graph_new == [nodes |-> 0, edges |-> <<>>]

\* Graph::add_node: the new node gets the next index
Graph_add_node(g) == [g EXCEPT !.nodes = @ + 1]

\* Graph::add_edge, for endpoints that exist: the edge is added last
Graph_add_edge(g, a, b) == [g EXCEPT !.edges = Append(@, <<a, b>>)]

\* the node at the other end of each edge leaving (dir = 1) or entering
\* (dir = 2) node nx, edges taken from the last added to the first
RECURSIVE Graph_walk(_, _, _)
Graph_walk(edges, nx, dir) ==
    IF edges = <<>> THEN <<>>
    ELSE LET e == edges[Len(edges)]
             rest == Graph_walk(SubSeq(edges, 1, Len(edges) - 1), nx, dir)
         IN  IF e[dir] = nx THEN <<e[3 - dir]>> \o rest ELSE rest

\* Graph::neighbors: the targets of the edges leaving nx
Graph_neighbors(g, nx) == Graph_walk(g.edges, nx, 1)

\* Reversed(g).neighbors: the sources of the edges entering nx
Reversed_neighbors(g, nx) == Graph_walk(g.edges, nx, 2)

(***************************************************************************)
(* petgraph::algo::toposort: a depth-first search over the nodes from the  *)
(* first to the last that records the order in which nodes are finished,   *)
(* then a search of the reversed graph in reverse finishing order, in      *)
(* which a search that reaches a second node has found a cycle.            *)
(***************************************************************************)
Cycle(node) == [node_id |-> node]

\* the elements of a sequence, last first
Reverse(q) == [k \in 1..Len(q) |-> q[Len(q) + 1 - k]]

\* the loop `while let Some(&nx) = dfs.stack.last()` of the first pass; err
\* is set when a node has an edge to itself
RECURSIVE toposort_visit(_, _)
toposort_visit(g, st) ==
    IF st.stack = <<>> THEN st
    ELSE LET nx == st.stack[Len(st.stack)]
         IN  IF nx \notin st.discovered
             THEN LET succs == Graph_neighbors(g, nx)
                      discovered == st.discovered \cup {nx}
                      Unvisited(succ) == succ \notin discovered
                  IN  IF \E k \in 1..Len(succs) : succs[k] = nx
                      THEN [st EXCEPT !.err = Some(Cycle(nx))]
                      ELSE toposort_visit(g,
                              [st EXCEPT !.discovered = discovered,
                                         !.stack = @ \o SelectSeq(succs, Unvisited)])
             ELSE toposort_visit(g,
                     [st EXCEPT !.stack = SubSeq(@, 1, Len(@) - 1),
                                !.finished = @ \cup {nx},
                                !.finish_stack = IF nx \in st.finished
                                                 THEN @ ELSE Append(@, nx)])

\* the loop `for i in g.node_identifiers()` of the first pass, from node i
\* up to the last node
RECURSIVE toposort_finish(_, _, _)
toposort_finish(g, i, st) ==
    IF i >= g.nodes \/ is_some(st.err) THEN st
    ELSE IF i \in st.discovered THEN toposort_finish(g, i + 1, st)
    ELSE toposort_finish(g, i + 1, toposort_visit(g, [st EXCEPT !.stack = <<i>>]))

\* Dfs::next on the reversed graph: the next node not yet discovered, its
\* undiscovered neighbours pushed; None when the stack runs empty
RECURSIVE Dfs_next(_, _)
Dfs_next(g, dfs) ==
    IF dfs.stack = <<>> THEN [dfs EXCEPT !.node = None]
    ELSE LET node == dfs.stack[Len(dfs.stack)]
             popped == SubSeq(dfs.stack, 1, Len(dfs.stack) - 1)
         IN  IF node \notin dfs.discovered
             THEN LET discovered == dfs.discovered \cup {node}
                      Unvisited(succ) == succ \notin discovered
                  IN  [stack |-> popped \o SelectSeq(Reversed_neighbors(g, node), Unvisited),
                       discovered |-> discovered,
                       node |-> Some(node)]
             ELSE Dfs_next(g, [dfs EXCEPT !.stack = popped])

\* the loop `while let Some(j) = dfs.next(Reversed(g))` of the second pass
RECURSIVE toposort_scan(_, _, _)
toposort_scan(g, dfs, cycle) ==
    LET r == Dfs_next(g, dfs)
    IN  IF ~is_some(r.node) THEN [dfs |-> r, err |-> None]
        ELSE IF cycle THEN [dfs |-> r, err |-> Some(Cycle(unwrap(r.node)))]
        ELSE toposort_scan(g, r, TRUE)

\* the loop `for &i in &finish_stack` of the second pass, from place k on
RECURSIVE toposort_check(_, _, _, _)
toposort_check(g, finish_stack, k, dfs) ==
    IF k > Len(finish_stack) THEN None
    ELSE LET r == toposort_scan(g, [dfs EXCEPT !.stack = <<finish_stack[k]>>], FALSE)
         IN  IF is_some(r.err) THEN r.err
             ELSE toposort_check(g, finish_stack, k + 1, r.dfs)

\* petgraph::algo::toposort(g, None)
petgraph_toposort(g) ==
    LET first == toposort_finish(g, 0,
                    [stack |-> <<>>, discovered |-> {}, finished |-> {},
                     finish_stack |-> <<>>, err |-> None])
        finish_stack == Reverse(first.finish_stack)
        second == toposort_check(g, finish_stack, 1,
                     [stack |-> <<>>, discovered |-> {}, node |-> None])
    IN  IF is_some(first.err)
        THEN Err([node_id |-> NodeIndex_new(unwrap(first.err).node_id)])
        ELSE IF is_some(second)
        THEN Err([node_id |-> NodeIndex_new(unwrap(second).node_id)])
        ELSE Ok([k \in 1..Len(finish_stack) |-> NodeIndex_new(finish_stack[k])])

\* new_test_graph of tests/test.rs: five nodes and nine edges
new_test_graph ==
    [nodes |-> 5,
     edges |-> << <<1, 0>>, <<1, 3>>, <<1, 2>>, <<0, 3>>, <<0, 2>>, <<3, 2>>,
                  <<4, 1>>, <<4, 0>>, <<4, 3>> >>]

(***************************************************************************)
(* GraphError (lib.rs) and the toposort of algo/mod.rs                     *)
(***************************************************************************)
GraphError_new(message, t, i) ==
    [message |-> message, component |-> [component_type |-> t, id |-> i]]

\* serialising a GraphError (a string, an enum tag and a u32) succeeds
GraphError_create_js_value(e) == Ok(e)

\* impl From<Cycle<NodeIndex<u32>>> for GraphError
GraphError_from(cycle) ==
    GraphError_new("Cycle detected", "Node", NodeIndex_index(cycle.node_id))

\* toposort with the cycle unwrapped rather than turned into an error value
toposort_unwrapped(g) ==
    LET r == petgraph_toposort(g)
    IN  IF r.tag = "Ok"
        THEN Ok([k \in 1..Len(r.val) |-> NodeIndex_index(r.val[k])])
        ELSE Panic("called Result::unwrap() on an Err value")

\* algo::toposort
toposort(g) ==
    LET r == petgraph_toposort(g)
    IN  IF r.tag = "Ok"
        THEN Ok([k \in 1..Len(r.val) |-> NodeIndex_index(r.val[k])])
        ELSE LET js == GraphError_create_js_value(GraphError_from(r.val))
             IN  IF js.tag = "Ok" THEN Err(js.val) ELSE Err(js.val)

(***************************************************************************)
(* The SccGroups / SccGroup pair of js_helpers/mod.rs and algo/mod.rs: an  *)
(* Rc<Vec<Vec<NodeIndex>>> shared by the groups value and by every group   *)
(* taken from it; a group is the Rc and the index of its Vec.  vec is the  *)
(* value behind the Rc; a JsValue is an Option, undefined being None.      *)
(***************************************************************************)
\* SccGroup::new
SccGroup_new(index) == [index |-> index]

\* Faulty variant of SccGroups::get: the index equal to the number of groups
\* is let through.
SccGroups_get_inclusive(vec, index) ==
    IF Len(vec) >= index THEN Ret(Some(SccGroup_new(index))) ELSE Ret(None)

\* SccGroups::get
SccGroups_get(vec, index) ==
    IF Len(vec) > index THEN Ret(Some(SccGroup_new(index))) ELSE Ret(None)

\* SccGroups::copy_to_std_vec (to_std_vec in algo/mod.rs)
SccGroups_copy_to_std_vec(vec) ==
    [k \in 1..Len(vec) |-> [j \in 1..Len(vec[k]) |-> NodeIndex_index(vec[k][j])]]

\* SccGroup::get
SccGroup_get(vec, group, index) ==
    LET scc_group == slice_get(vec, group.index)
    IN  IF ~is_some(scc_group) THEN Panic("INTERNAL ERROR IN SCCGROUP")
        ELSE LET node_index == slice_get(unwrap(scc_group), index)
             IN  IF is_some(node_index)
                 THEN Ret(Some(NodeIndex_index(unwrap(node_index))))
                 ELSE Ret(None)

(***************************************************************************)
(* State                                                                   *)
(***************************************************************************)
Call(op, pos, arg, out) == [op |-> op, pos |-> pos, arg |-> arg, out |-> out]
NoCall == Call("none", <<>>, <<>>, [tag |-> "none", val |-> <<>>])
Idle == ret = NoCall

Alive == inner # NoInner
IsSccGroups == Alive /\ inner.transform = "node_index"
\* A view is a clone of the handle and a position and nothing else, so the
\* live views are counted per position.
LiveViews == { VecTreeView_new(p) : p \in { q \in ViewPositions : views[q] > 0 } }

RECURSIVE Sum(_, _)
Sum(f, S) == IF S = {} THEN 0 ELSE LET x == CHOOSE y \in S : TRUE IN f[x] + Sum(f, S \ {x})

NumViews == Sum(views, ViewPositions)

\* everything that owns a share of the Rc
Holders == handles + NumViews + rcs

Init ==
    /\ inner = NoInner
    /\ strong = 0
    /\ handles = 0
    /\ views = [p \in ViewPositions |-> 0]
    /\ rcs = 0
    /\ ret = NoCall
    /\ given = NoInput
    /\ graph = Graph_new
    /\ groups = [i \in Indices |-> 0]

(***************************************************************************)
(* Rc bookkeeping                                                          *)
(***************************************************************************)
\* Rc::new: a fresh allocation with one owner
Rc_new(value) ==
    /\ inner' = value
    /\ strong' = 1

\* Rc::clone: one more owner of the same allocation
Rc_clone ==
    /\ strong < MaxStrong
    /\ strong' = strong + 1
    /\ inner' = inner

\* Faulty variant of Drop for Rc: the allocation is freed by the first owner
\* that goes away.
Rc_drop_frees_at_once ==
    /\ strong' = strong - 1
    /\ inner' = NoInner

\* Drop for Rc: one owner less; the last one frees the allocation
Rc_drop ==
    /\ strong' = strong - 1
    /\ inner' = IF strong = 1 THEN NoInner ELSE inner

\* Faulty variant of a temporary Rc: the clone is never dropped.
Rc_temporary_leaked ==
    /\ strong' = strong + 1
    /\ inner' = inner

\* An Rc cloned inside a call and dropped before the call returns (the Rc
\* from inner(), or the handle inside a view that is not handed out): one
\* owner more, then one owner less, of an allocation that has another owner.
Rc_temporary ==
    /\ strong' = (strong + 1) - 1
    /\ inner' = inner

(***************************************************************************)
(* Construction                                                            *)
(***************************************************************************)
Construct(op, value) ==
    /\ Idle
    /\ ~Alive
    /\ handles = 0
    /\ Rc_new(value)
    /\ handles' = 1
    /\ ret' = Call(op, <<>>, <<>>, Ret("VecTree"))
    /\ given' = [ctor |-> op, data |-> value.data]
    /\ UNCHANGED <<graph, groups>>
    /\ UNCHANGED <<views, rcs>>

\* VecTree::new1d
New1d ==
    \E in \in Inputs1d :
        Construct("new1d", [variant |-> "Vt1D", data |-> in.data, transform |-> in.transform])

\* VecTree::new2d
New2d ==
    \E in \in Inputs2d :
        Construct("new2d", [variant |-> "Vt2D", data |-> in.data, transform |-> in.transform])

\* VecTree::new3d
New3d ==
    \E in \in Inputs3d :
        Construct("new3d", [variant |-> "Vt3D", data |-> in.data, transform |-> in.transform])

\* SccGroups::new
SccGroupsNew ==
    \E data \in InputsScc :
        Construct("SccGroups::new", [variant |-> "Vt2D", data |-> data, transform |-> "node_index"])

(***************************************************************************)
(* Handles                                                                 *)
(***************************************************************************)
\* Clone for VecTree
Clone ==
    /\ Idle
    /\ UNCHANGED <<given, graph, groups>>
    /\ handles >= 1
    /\ Rc_clone
    /\ handles' = handles + 1
    /\ ret' = Call("clone", <<>>, <<>>, Ret("VecTree"))
    /\ UNCHANGED <<views, rcs>>

\* a VecTree handle goes out of scope
DropHandle ==
    /\ Idle
    /\ UNCHANGED <<given, graph, groups>>
    /\ handles >= 1
    /\ Rc_drop
    /\ handles' = handles - 1
    /\ ret' = Call("drop", <<>>, <<>>, Ret(<<>>))
    /\ UNCHANGED <<views, rcs>>

\* VecTree::inner, the returned Rc kept by the caller
Inner ==
    /\ Idle
    /\ UNCHANGED <<given, graph, groups>>
    /\ handles >= 1
    /\ Rc_clone
    /\ rcs' = rcs + 1
    /\ ret' = Call("inner", <<>>, <<>>, Ret("Rc"))
    /\ UNCHANGED <<handles, views>>

\* an Rc obtained from VecTree::inner goes out of scope
DropRc ==
    /\ Idle
    /\ UNCHANGED <<given, graph, groups>>
    /\ rcs >= 1
    /\ Rc_drop
    /\ rcs' = rcs - 1
    /\ ret' = Call("drop_rc", <<>>, <<>>, Ret(<<>>))
    /\ UNCHANGED <<handles, views>>

\* VecTree::depth
Depth ==
    /\ Idle
    /\ UNCHANGED <<given, graph, groups>>
    /\ handles >= 1
    /\ ret' = Call("depth", <<>>, <<>>, Ret(depth(inner)))
    /\ UNCHANGED <<inner, strong, handles, views, rcs>>

\* The caller of a call that made a view (whose VecTreeView::new cloned the
\* handle) keeps it, or lets it go at once.
KeepOrDrop(view) ==
    \/ /\ Rc_clone
       /\ views' = [views EXCEPT ![view.position] = @ + 1]
    \/ /\ views' = views
       /\ UNCHANGED <<inner, strong>>

\* VecTree::get
Get ==
    /\ Idle
    /\ UNCHANGED <<given, graph, groups>>
    /\ handles >= 1
    /\ \E position \in Positions(inner) :
         LET e == VecTree_get(inner, position)
         IN  /\ ret' = Call("get", <<>>, position, e)
             /\ IF e.tag = "View" /\ is_some(e.val)
                THEN KeepOrDrop(unwrap(e.val))
                ELSE UNCHANGED <<inner, strong, views>>
    /\ UNCHANGED <<handles, rcs>>

\* VecTree::get_len
GetLen ==
    /\ Idle
    /\ UNCHANGED <<given, graph, groups>>
    /\ handles >= 1
    /\ \E position \in Positions(inner) :
         ret' = Call("get_len", <<>>, position, VecTree_get_len(inner, position))
    /\ UNCHANGED <<inner, strong, handles, views, rcs>>

\* Rc::try_unwrap on the handle's Rc: the value if this is the only owner
Rc_try_unwrap(value, count) == IF count = 1 THEN Ok(value) ELSE Err("Rc")

\* Faulty variant of VecTree::try_unwrap: when the Rc is shared, a copy of
\* the value is handed out instead of the handle.
VecTree_try_unwrap_or_clone(value, count) == Ok(value)

\* VecTree::try_unwrap
VecTree_try_unwrap(value, count) ==
    LET r == Rc_try_unwrap(value, count)
    IN  IF r.tag = "Ok" THEN r ELSE Err("VecTree")

\* SccGroups::try_into_vecs
SccGroups_try_into_vecs(value, count) ==
    LET r == VecTree_try_unwrap(value, count)
    IN  IF r.tag = "Ok"
        THEN IF r.val.variant = "Vt2D" THEN Ok(into_vecs(r.val))
             ELSE Panic("SccGroups has wrong dimensional VecTree")
        ELSE Err("SccGroups")

\* Faulty variant: on Err the handle that was passed in is not given back.
Reclaim_keeps_handle(op, r) ==
    /\ ret' = Call(op, <<>>, <<>>, r)
    /\ IF r.tag = "Err"
       THEN /\ handles' = handles - 1
            /\ Rc_drop
       ELSE /\ inner' = NoInner
            /\ strong' = 0
            /\ handles' = handles - 1
    /\ UNCHANGED <<views, rcs>>

\* Faulty variant: on Err the data has been taken out of the tree all the same.
Reclaim_takes_data(op, r) ==
    /\ ret' = Call(op, <<>>, <<>>, r)
    /\ IF r.tag = "Err"
       THEN /\ inner' = [inner EXCEPT !.data = <<>>]
            /\ UNCHANGED <<strong, handles>>
       ELSE /\ inner' = NoInner
            /\ strong' = 0
            /\ handles' = handles - 1
    /\ UNCHANGED <<views, rcs>>

\* The handle is consumed by the call; on Err it comes back, on Ok the value
\* has been moved out of the Rc and the allocation is gone.
Reclaim(op, r) ==
    /\ ret' = Call(op, <<>>, <<>>, r)
    /\ IF r.tag = "Err"
       THEN UNCHANGED <<inner, strong, handles>>
       ELSE /\ inner' = NoInner
            /\ strong' = 0
            /\ handles' = handles - 1
    /\ UNCHANGED <<views, rcs>>

\* VecTree::try_unwrap
TryUnwrap ==
    /\ Idle
    /\ UNCHANGED <<given, graph, groups>>
    /\ handles >= 1
    /\ Reclaim("try_unwrap", VecTree_try_unwrap(inner, strong))

\* SccGroups::try_into_vecs
TryIntoVecs ==
    /\ Idle
    /\ UNCHANGED <<given, graph, groups>>
    /\ handles >= 1
    /\ IsSccGroups
    /\ Reclaim("try_into_vecs", SccGroups_try_into_vecs(inner, strong))

(***************************************************************************)
(* Views                                                                   *)
(***************************************************************************)
\* VecTreeView::len
ViewLen ==
    /\ Idle
    /\ UNCHANGED <<given, graph, groups>>
    /\ \E view \in LiveViews :
        /\ ret' = Call("len", view.position, <<>>, VecTreeView_len(inner, view))
        /\ UNCHANGED <<inner, strong, handles, views, rcs>>

\* VecTreeView::get_view
ViewGetView ==
    /\ Idle
    /\ UNCHANGED <<given, graph, groups>>
    /\ \E view \in LiveViews, index \in Indices :
        LET r == VecTreeView_get_view(inner, view, index)
        IN  /\ ret' = Call("get_view", view.position, index, r)
            /\ IF r.tag = "ret" /\ is_some(r.val)
               THEN KeepOrDrop(unwrap(r.val))
               ELSE UNCHANGED <<inner, strong, views>>
            /\ UNCHANGED <<handles, rcs>>

\* VecTreeView::get_item
ViewGetItem ==
    /\ Idle
    /\ UNCHANGED <<given, graph, groups>>
    /\ \E view \in LiveViews, index \in Indices :
        /\ ret' = Call("get_item", view.position, index,
                       VecTreeView_get_item(inner, view, index))
        /\ UNCHANGED <<inner, strong, handles, views, rcs>>

\* VecTreeView::current_depth
ViewCurrentDepth ==
    /\ Idle
    /\ UNCHANGED <<given, graph, groups>>
    /\ \E view \in LiveViews :
        ret' = Call("current_depth", view.position, <<>>,
                    Ret(VecTreeView_current_depth(view)))
    /\ UNCHANGED <<inner, strong, handles, views, rcs>>

\* VecTreeView::max_depth (the Rc from inner() lives only inside the call)
ViewMaxDepth ==
    /\ Idle
    /\ UNCHANGED <<given, graph, groups>>
    /\ \E view \in LiveViews :
        ret' = Call("max_depth", view.position, <<>>,
                    Ret(VecTreeView_max_depth(inner, view)))
    /\ Rc_temporary
    /\ UNCHANGED <<handles, views, rcs>>

\* VecTreeView::is_root
ViewIsRoot ==
    /\ Idle
    /\ UNCHANGED <<given, graph, groups>>
    /\ \E view \in LiveViews :
        ret' = Call("is_root", view.position, <<>>, Ret(VecTreeView_is_root(view)))
    /\ UNCHANGED <<inner, strong, handles, views, rcs>>

\* VecTreeView::is_leaf (the Rc from inner() lives only inside the call)
ViewIsLeaf ==
    /\ Idle
    /\ UNCHANGED <<given, graph, groups>>
    /\ \E view \in LiveViews :
        ret' = Call("is_leaf", view.position, <<>>,
                    Ret(VecTreeView_is_leaf(inner, view)))
    /\ Rc_temporary
    /\ UNCHANGED <<handles, views, rcs>>

\* a VecTreeView (or the SccGroup around it) goes out of scope
DropView ==
    /\ Idle
    /\ UNCHANGED <<given, graph, groups>>
    /\ \E view \in LiveViews :
        /\ views' = [views EXCEPT ![view.position] = @ - 1]
        /\ Rc_drop
        /\ ret' = Call("drop_view", view.position, <<>>, Ret(<<>>))
        /\ UNCHANGED <<handles, rcs>>

(***************************************************************************)
(* The SccGroups adapter                                                   *)
(***************************************************************************)
\* SccGroups::get_group
GetGroup ==
    /\ Idle
    /\ UNCHANGED <<given, graph, groups>>
    /\ handles >= 1
    /\ IsSccGroups
    /\ \E index \in Indices :
         LET r == SccGroups_get_group(inner, index)
         IN  /\ ret' = Call("get_group", <<>>, index, r)
             /\ IF r.tag = "ret" /\ is_some(r.val)
                THEN KeepOrDrop(unwrap(r.val).view)
                ELSE UNCHANGED <<inner, strong, views>>
    /\ UNCHANGED <<handles, rcs>>

\* SccGroup::len
GroupLen ==
    /\ Idle
    /\ UNCHANGED <<given, graph, groups>>
    /\ IsSccGroups
    /\ \E view \in LiveViews :
         ret' = Call("SccGroup::len", view.position, <<>>,
                     SccGroup_len(inner, [view |-> view]))
    /\ UNCHANGED <<inner, strong, handles, views, rcs>>

\* SccGroup::get_item
GroupGetItem ==
    /\ Idle
    /\ UNCHANGED <<given, graph, groups>>
    /\ IsSccGroups
    /\ \E view \in LiveViews, index \in Indices :
         ret' = Call("SccGroup::get_item", view.position, index,
                     SccGroup_get_item(inner, [view |-> view], index))
    /\ UNCHANGED <<inner, strong, handles, views, rcs>>

\* SccGroups::len (the root view it makes lives only inside the call)
GroupsLen ==
    /\ Idle
    /\ UNCHANGED <<given, graph, groups>>
    /\ handles >= 1
    /\ IsSccGroups
    /\ ret' = Call("SccGroups::len", <<>>, <<>>, SccGroups_len(inner))
    /\ Rc_temporary
    /\ UNCHANGED <<handles, views, rcs>>

\* SccGroups::is_empty
GroupsIsEmpty ==
    /\ Idle
    /\ UNCHANGED <<given, graph, groups>>
    /\ handles >= 1
    /\ IsSccGroups
    /\ ret' = Call("SccGroups::is_empty", <<>>, <<>>, SccGroups_is_empty(inner))
    /\ Rc_temporary
    /\ UNCHANGED <<handles, views, rcs>>

\* SccGroups::to_arrays (the Rc from inner() lives only inside the call)
ToArrays ==
    /\ Idle
    /\ UNCHANGED <<given, graph, groups>>
    /\ handles >= 1
    /\ IsSccGroups
    /\ ret' = Call("to_arrays", <<>>, <<>>, SccGroups_to_arrays(inner))
    /\ Rc_temporary
    /\ UNCHANGED <<handles, views, rcs>>

\* The caller takes the outcome of the call and goes on.
Continue ==
    /\ ~Idle
    /\ UNCHANGED <<given, graph, groups>>
    /\ ret' = NoCall
    /\ UNCHANGED <<inner, strong, handles, views, rcs>>

Next ==
    \/ Continue
    \/ New1d \/ New2d \/ New3d \/ SccGroupsNew
    \/ Clone \/ DropHandle \/ Inner \/ DropRc
    \/ Depth \/ Get \/ GetLen
    \/ TryUnwrap \/ TryIntoVecs
    \/ ViewLen \/ ViewGetView \/ ViewGetItem \/ DropView
    \/ ViewCurrentDepth \/ ViewMaxDepth \/ ViewIsRoot \/ ViewIsLeaf
    \/ GetGroup \/ GroupLen \/ GroupGetItem
    \/ GroupsLen \/ GroupsIsEmpty \/ ToArrays

Spec == Init /\ [][Next]_vars

(***************************************************************************)
(* DiGraph (graph_impl/mod.rs) and toposort (algo/mod.rs)                  *)
(***************************************************************************)
\* DiGraph::add_node
AddNode ==
    /\ Idle
    /\ graph.nodes < MaxNodes
    /\ graph' = Graph_add_node(graph)
    /\ ret' = Call("add_node", <<>>, <<>>, Ret(graph.nodes))
    /\ UNCHANGED <<inner, strong, handles, views, rcs, given, groups>>

\* DiGraph::add_edge; petgraph panics on an end that is not a node, before
\* it stores anything
AddEdge ==
    /\ Idle
    /\ Len(graph.edges) < MaxEdges
    /\ \E a \in 0..MaxNodes, b \in 0..MaxNodes :
         IF a < graph.nodes /\ b < graph.nodes
         THEN /\ graph' = Graph_add_edge(graph, a, b)
              /\ ret' = Call("add_edge", <<>>, <<a, b>>, Ret(Len(graph.edges)))
         ELSE /\ graph' = graph
              /\ ret' = Call("add_edge", <<>>, <<a, b>>,
                             Panic("Graph::add_edge: node indices out of bounds"))
    /\ UNCHANGED <<inner, strong, handles, views, rcs, given, groups>>

\* new_test_graph of tests/test.rs, and the edge from 2 to 1 that
\* can_detect_cycles adds to it
NewTestGraph ==
    /\ Idle
    /\ graph = Graph_new
    /\ \E cyclic \in BOOLEAN :
         graph' = IF cyclic THEN Graph_add_edge(new_test_graph, 2, 1)
                  ELSE new_test_graph
    /\ ret' = Call("new_test_graph", <<>>, <<>>, Ret(0))
    /\ UNCHANGED <<inner, strong, handles, views, rcs, given, groups>>

\* algo::toposort
Toposort ==
    /\ Idle
    /\ ret' = Call("toposort", <<>>, <<>>, toposort(graph))
    /\ UNCHANGED <<inner, strong, handles, views, rcs, given, graph, groups>>

NextTopo ==
    \/ Continue
    \/ AddNode \/ AddEdge \/ NewTestGraph
    \/ Toposort

SpecTopo == Init /\ [][NextTopo]_vars

(***************************************************************************)
(* The SccGroups / SccGroup pair of js_helpers/mod.rs and algo/mod.rs.     *)
(* handles counts the SccGroups value, groups the live SccGroups by index. *)
(***************************************************************************)
\* SccGroups::new
ModSccGroupsNew ==
    /\ Idle
    /\ ~Alive
    /\ handles = 0
    /\ \E val \in InputsScc :
         /\ Rc_new([variant |-> "Vec", data |-> val])
         /\ given' = [ctor |-> "SccGroups::new", data |-> val]
    /\ handles' = 1
    /\ ret' = Call("SccGroups::new", <<>>, <<>>, Ret("SccGroups"))
    /\ UNCHANGED <<views, rcs, graph, groups>>

\* SccGroups::get: a group that takes a clone of the Rc, or undefined
ModSccGroupsGet ==
    /\ Idle
    /\ handles = 1
    /\ Alive /\ inner.variant = "Vec"
    /\ \E index \in Indices :
         LET r == SccGroups_get(inner.data, index)
         IN  /\ ret' = Call("SccGroups::get", <<>>, index, r)
             /\ IF is_some(r.val)
                THEN /\ Rc_clone
                     /\ groups' = [groups EXCEPT ![unwrap(r.val).index] = @ + 1]
                ELSE UNCHANGED <<inner, strong, groups>>
    /\ UNCHANGED <<handles, views, rcs, given, graph>>

\* SccGroup::get on a live group
ModSccGroupGet ==
    /\ Idle
    /\ \E i \in Indices, index \in Indices :
         /\ groups[i] > 0
         /\ ret' = Call("SccGroup::get", <<i>>, index,
                        SccGroup_get(inner.data, SccGroup_new(i), index))
    /\ UNCHANGED <<inner, strong, handles, views, rcs, given, graph, groups>>

\* SccGroups::copy_to_std_vec
ModCopyToStdVec ==
    /\ Idle
    /\ handles = 1
    /\ Alive /\ inner.variant = "Vec"
    /\ ret' = Call("copy_to_std_vec", <<>>, <<>>,
                   Ret(SccGroups_copy_to_std_vec(inner.data)))
    /\ UNCHANGED <<inner, strong, handles, views, rcs, given, graph, groups>>

\* the read-only index field of a live SccGroup
ModSccGroupIndex ==
    /\ Idle
    /\ \E i \in Indices :
         /\ groups[i] > 0
         /\ ret' = Call("SccGroup::index", <<i>>, <<>>, Ret(SccGroup_new(i).index))
    /\ UNCHANGED <<inner, strong, handles, views, rcs, given, graph, groups>>

\* the SccGroups value goes out of scope
ModDropSccGroups ==
    /\ Idle
    /\ handles = 1
    /\ Alive /\ inner.variant = "Vec"
    /\ Rc_drop
    /\ handles' = 0
    /\ ret' = Call("drop", <<>>, <<>>, Ret(<<>>))
    /\ UNCHANGED <<views, rcs, given, graph, groups>>

\* an SccGroup goes out of scope
ModDropSccGroup ==
    /\ Idle
    /\ \E i \in Indices :
         /\ groups[i] > 0
         /\ groups' = [groups EXCEPT ![i] = @ - 1]
         /\ ret' = Call("drop_group", <<i>>, <<>>, Ret(<<>>))
    /\ Rc_drop
    /\ UNCHANGED <<handles, views, rcs, given, graph>>

NextScc ==
    \/ Continue
    \/ ModSccGroupsNew \/ ModSccGroupsGet \/ ModSccGroupGet
    \/ ModCopyToStdVec \/ ModSccGroupIndex
    \/ ModDropSccGroups \/ ModDropSccGroup

SpecScc == Init /\ [][NextScc]_vars

\* The strong count is the number of holders.
StrongIsHolders == strong = Holders /\ (Alive <=> strong > 0)

(***************************************************************************)
(* What the properties compare the accessor with: the nested Vec read      *)
(* directly.                                                               *)
(***************************************************************************)
\* every index of p is in range at its level of the nested Vec
RECURSIVE InRange(_, _)
InRange(data, p) ==
    \/ p = <<>>
    \/ /\ Head(p) < Len(data)
       /\ InRange(data[Head(p) + 1], Tail(p))

\* data[p[0]][p[1]]..., for p in range
RECURSIVE At(_, _)
At(data, p) == IF p = <<>> THEN data ELSE At(data[Head(p) + 1], Tail(p))

IsCall(ops) == Alive /\ ret.op \in ops

(***************************************************************************)
(* C1: get_child(i) on a non-leaf view (VecTreeView::get_view, and         *)
(* SccGroups::get_group on the root) returns no view for every index i     *)
(* that is not smaller than the length of the sequence the view addresses. *)
(***************************************************************************)
C1_ChildPastEndIsAbsent ==
    /\ ( /\ IsCall({"get_view"})
         /\ Len(ret.pos) < depth(inner) - 1
         /\ InRange(inner.data, ret.pos)
         /\ ret.arg >= Len(At(inner.data, ret.pos)) )
       => ret.out = Ret(None)
    /\ ( /\ IsCall({"get_group"})
         /\ ret.arg >= Len(inner.data) )
       => ret.out = Ret(None)

C3_LenOfMissingSequenceIsZero ==
    ( /\ IsCall({"len", "SccGroup::len"})
      /\ ~InRange(inner.data, ret.pos) )
    => ret.out = Ret(0)

(***************************************************************************)
(* C4: round trip.  For a position as long as the depth with every index   *)
(* in range, VecTree::get answers the Item transform(data[p[0]]...[p[d-1]])*)
(* and so does get_item(p[d-1]) on the leaf view at p[0..d-1].             *)
(***************************************************************************)
C4_RoundTrip ==
    /\ ( /\ IsCall({"get"})
         /\ Len(ret.arg) = depth(inner)
         /\ InRange(inner.data, ret.arg) )
       => ret.out = Item(Some(transform(inner.transform, At(inner.data, ret.arg))))
    /\ ( /\ IsCall({"get_item", "SccGroup::get_item"})
         /\ Len(ret.pos) = depth(inner) - 1
         /\ InRange(inner.data, Append(ret.pos, ret.arg)) )
       => ret.out = Ret(Some(transform(inner.transform,
                                       At(inner.data, Append(ret.pos, ret.arg)))))

C4_Witness ==
    /\ IsCall({"get_item"})
    /\ depth(inner) = 3
    /\ Len(ret.pos) = 2
    /\ ret.pos # <<ret.arg, ret.arg>>
    /\ InRange(inner.data, Append(ret.pos, ret.arg))
    /\ ret.out.tag = "ret"
    /\ is_some(ret.out.val)

(***************************************************************************)
(* C5: for a position as long as the depth with some index out of range    *)
(* (first, intermediate or last), VecTree::get answers an absent Item and  *)
(* does not panic; get_item on a leaf view answers None for an index out   *)
(* of range and for a view whose own position is out of range.             *)
(***************************************************************************)
C5_OutOfRangeItemIsAbsent ==
    /\ ( /\ IsCall({"get"})
         /\ Len(ret.arg) = depth(inner)
         /\ ~InRange(inner.data, ret.arg) )
       => ret.out = Item(None)
    /\ ( /\ IsCall({"get_item", "SccGroup::get_item"})
         /\ Len(ret.pos) = depth(inner) - 1
         /\ ~InRange(inner.data, Append(ret.pos, ret.arg)) )
       => ret.out = Ret(None)

C5_Witness ==
    /\ IsCall({"get_item", "SccGroup::get_item"})
    /\ Len(ret.pos) = depth(inner) - 1
    /\ ~InRange(inner.data, ret.pos)
    /\ ret.out = Ret(None)

(***************************************************************************)
(* C6: for a position longer than the depth VecTree::get panics, whatever  *)
(* the tree holds and whatever the indices are.                            *)
(***************************************************************************)
C6_LongPositionPanics ==
    ( /\ IsCall({"get"})
      /\ Len(ret.arg) > depth(inner) )
    => ret.out.tag = "panic"

C6_Witness ==
    /\ IsCall({"get"})
    /\ depth(inner) = 3
    /\ Len(ret.arg) = 4
    /\ InRange(inner.data, SubSeq(ret.arg, 1, 3))
    /\ ret.out.tag = "panic"

(***************************************************************************)
(* C7: the tag of what VecTree::get answers depends only on the length of  *)
(* the position and the depth: Item exactly when they are equal, View      *)
(* exactly when the position is shorter.                                   *)
(***************************************************************************)
C7_TagByLengthOnly ==
    IsCall({"get"})
    => /\ ret.out.tag = "Item" <=> Len(ret.arg) = depth(inner)
       /\ ret.out.tag = "View" <=> Len(ret.arg) < depth(inner)

C7_Witness ==
    /\ IsCall({"get"})
    /\ ret.out.tag = "Item"
    /\ ~InRange(inner.data, ret.arg)
    /\ Len(ret.arg) = depth(inner)

(***************************************************************************)
(* C8: for a position shorter than the depth, VecTree::get_len answers the *)
(* number of elements of the sequence the position leads to when every     *)
(* index is in range, and None (no panic) when some index is not.          *)
(***************************************************************************)
C8_GetLenIsLengthOrNone ==
    ( /\ IsCall({"get_len"})
      /\ Len(ret.arg) < depth(inner) )
    => ret.out = Ret(IF InRange(inner.data, ret.arg)
                     THEN Some(Len(At(inner.data, ret.arg)))
                     ELSE None)

C8_Witness ==
    /\ IsCall({"get_len"})
    /\ depth(inner) = 3
    /\ Len(ret.arg) = 2
    /\ InRange(inner.data, ret.arg)
    /\ ret.out.tag = "ret"
    /\ ret.out.val # Some(Len(inner.data))
    /\ ret.out.val # Some(Len(inner.data[ret.arg[1] + 1]))

(***************************************************************************)
(* C9: for a position longer than the depth VecTree::get_len panics.       *)
(***************************************************************************)
C9_GetLenLongPositionPanics ==
    ( /\ IsCall({"get_len"})
      /\ Len(ret.arg) > depth(inner) )
    => ret.out.tag = "panic"

C9_Witness ==
    /\ IsCall({"get_len"})
    /\ depth(inner) = 2
    /\ Len(ret.arg) = 3
    /\ ret.out.tag = "panic"

(***************************************************************************)
(* C10: try_unwrap (and try_into_vecs) on a handle succeeds exactly when   *)
(* that handle is the only holder of the tree: the handle is consumed and  *)
(* nothing holds the tree afterwards, or the call fails and at least two   *)
(* holders (this handle and a view, handle or Rc) are alive.               *)
(***************************************************************************)
C10_ReclaimIffSoleHolder ==
    ret.op \in {"try_unwrap", "try_into_vecs"}
    => \/ ret.out.tag = "Ok" /\ Holders = 0
       \/ ret.out.tag = "Err" /\ Holders >= 2 /\ handles >= 1

C10_Witness ==
    /\ ret.op = "try_unwrap"
    /\ ret.out.tag = "Err"
    /\ handles = 1
    /\ rcs = 0
    /\ NumViews = 1

(***************************************************************************)
(* C11: whenever try_unwrap (try_into_vecs) succeeds, the nested Vec that  *)
(* comes back (into_vecs of the storage taken out of the Rc) is the nested *)
(* Vec the tree was constructed from: same shape, same raw values, same    *)
(* order, whatever lookups, navigations and drops came before.             *)
(***************************************************************************)
C11_ReclaimedIsGiven ==
    /\ (ret.op = "try_unwrap" /\ ret.out.tag = "Ok")
       => ret.out.val.data = given.data
    /\ (ret.op = "try_into_vecs" /\ ret.out.tag = "Ok")
       => ret.out.val = given.data

C11_Witness ==
    /\ ret.op = "try_into_vecs"
    /\ ret.out.tag = "Ok"
    /\ given.ctor = "SccGroups::new"
    /\ Len(given.data) = 2
    /\ Len(ret.out.val) = 2

(***************************************************************************)
(* C12: a try_unwrap (try_into_vecs) made while another holder exists      *)
(* fails and gives the tree back unchanged: the same backing data, the     *)
(* same holders (so every lookup answers as before).  It fails as long as  *)
(* some other holder is left, and succeeds once the handle is the only     *)
(* holder.                                                                 *)
(***************************************************************************)
C12_FailedReclaimChangesNothing ==
    [][ ret'.op \in {"try_unwrap", "try_into_vecs"}
        => IF Holders >= 2
           THEN /\ ret'.out.tag = "Err"
                /\ UNCHANGED <<inner, strong, handles, views, rcs, given>>
           ELSE ret'.out.tag = "Ok" ]_vars

C12_Witness ==
    /\ ret.op = "try_into_vecs"
    /\ ret.out.tag = "Err"
    /\ Alive
    /\ inner.data = given.data
    /\ handles = 1
    /\ NumViews = 2

(***************************************************************************)
(* C13: in every reachable state the backing storage is alive exactly when *)
(* at least one holder (handle, cloned handle, view, or Rc from inner())   *)
(* exists, so it is released at the drop of the last holder and not        *)
(* before, in whatever order the holders go; while it is alive it holds    *)
(* the data it was constructed with, so a view answers the same after the  *)
(* constructing handle and every other view have been dropped.             *)
(***************************************************************************)
C13_AliveIffHeld ==
    /\ LET holders == Holders
       IN  /\ Alive <=> holders >= 1
           /\ strong = holders
    /\ Alive => inner.data = given.data
    /\ ret.op \in {"len", "get_view", "get_item", "current_depth", "max_depth",
                   "is_root", "is_leaf"} => Alive

C13_Witness ==
    /\ handles = 0
    /\ rcs = 0
    /\ NumViews = 1
    /\ ret.op = "get_item"
    /\ ret.out.tag = "ret"
    /\ is_some(ret.out.val)

\* The nested array read out of a tree of depth 2 through its views: every
\* child of the root, every item of each child, in ascending order.
WalkByViews(vti) ==
    LET root == unwrap(VecTree_get(vti, <<>>).val)
    IN  [i \in 1..VecTreeView_len(vti, root).val |->
            LET child == unwrap(VecTreeView_get_view(vti, root, i - 1).val)
            IN  [j \in 1..VecTreeView_len(vti, child).val |->
                    unwrap(VecTreeView_get_item(vti, child, j - 1).val)]]

(***************************************************************************)
(* C14: SccGroups::to_arrays yields the nested array obtained by walking   *)
(* the tree through its views: the root's get_view(i) for i below the      *)
(* root's len(), and on each child get_item(j) for j below the child's     *)
(* len(), in ascending order: the same outer length, the same inner        *)
(* lengths and at each (i, j) the transformed item.  For [[0,1,2,3],[4]]   *)
(* it is [[0,1,2,3],[4]].                                                  *)
(***************************************************************************)
C14_ToArraysIsWalk ==
    IsCall({"to_arrays"})
    => /\ ret.out = Ret(WalkByViews(inner))
       /\ given.data = << <<NodeIndex_new(0), NodeIndex_new(1), NodeIndex_new(2),
                            NodeIndex_new(3)>>, <<NodeIndex_new(4)>> >>
          => ret.out = Ret(<< <<0, 1, 2, 3>>, <<4>> >>)

C14_Witness ==
    /\ IsCall({"to_arrays"})
    /\ ret.out = Ret(<< <<0, 1, 2, 3>>, <<4>> >>)
    /\ ret.out = Ret(WalkByViews(inner))

(***************************************************************************)
(* C15: access of the wrong kind always panics, for every index and every  *)
(* content of the tree: get_view on a view whose is_leaf() is true, and    *)
(* get_item on a view whose is_leaf() is false; neither answers a value    *)
(* or None.                                                                *)
(***************************************************************************)
C15_WrongKindPanics ==
    /\ ( /\ IsCall({"get_view"})
         /\ VecTreeView_is_leaf(inner, VecTreeView_new(ret.pos)) )
       => ret.out.tag = "panic"
    /\ ( /\ IsCall({"get_item", "SccGroup::get_item"})
         /\ ~VecTreeView_is_leaf(inner, VecTreeView_new(ret.pos)) )
       => ret.out.tag = "panic"

C15_Witness ==
    /\ IsCall({"get_item"})
    /\ depth(inner) = 3
    /\ Len(ret.pos) = 1
    /\ InRange(inner.data, Append(ret.pos, ret.arg))
    /\ ret.out = Panic("got view instead of item")

\* the view a call has just handed out, if it handed out one
ViewOut ==
    CASE ret.op = "get" /\ ret.out.tag = "View" -> ret.out.val
      [] ret.op = "get_view" /\ ret.out.tag = "ret" -> ret.out.val
      [] ret.op = "get_group" /\ ret.out.tag = "ret" /\ is_some(ret.out.val) ->
           Some(unwrap(ret.out.val).view)
      [] OTHER -> None

(***************************************************************************)
(* C16: in every reachable state every view that exists, obtained from     *)
(* VecTree::get or from any chain of get_view calls, has a position of     *)
(* length 0 to depth - 1 of its tree: no view addresses a leaf position.   *)
(***************************************************************************)
C16_ViewsAboveLeaves ==
    /\ \A p \in ViewPositions : views[p] > 0 => Alive /\ Len(p) <= depth(inner) - 1
    /\ is_some(ViewOut) => Alive /\ Len(unwrap(ViewOut).position) <= depth(inner) - 1

C16_Witness ==
    /\ ret.op = "get_view"
    /\ Alive
    /\ depth(inner) = 3
    /\ Len(ret.pos) = 1
    /\ is_some(ViewOut)
    /\ unwrap(ViewOut).position = Append(ret.pos, ret.arg)
    /\ views[Append(ret.pos, ret.arg)] > 0

\* The view reached from the root view by get_view with the indices of p, one
\* after the other; None if a step gives no view.
RECURSIVE Navigate(_, _)
Navigate(vti, p) ==
    IF p = <<>> THEN VecTree_get(vti, <<>>).val
    ELSE LET parent == Navigate(vti, SubSeq(p, 1, Len(p) - 1))
         IN  IF is_some(parent)
             THEN LET r == VecTreeView_get_view(vti, unwrap(parent), p[Len(p)])
                  IN  IF r.tag = "ret" THEN r.val ELSE None
             ELSE None

(***************************************************************************)
(* C17: for every position p in range and shorter than the depth, get_view *)
(* applied from the root view with the indices of p in turn gives a view   *)
(* at position p with current_depth() = length(p); for it is_root() holds  *)
(* exactly when p is empty, max_depth() = depth - 1, and is_leaf() holds   *)
(* exactly when length(p) = depth - 1.                                     *)
(***************************************************************************)
C17_NavigationReachesPosition ==
    /\ (Alive /\ Idle) =>
         \A p \in SeqsUpTo(depth(inner) - 1) :
            InRange(inner.data, p) =>
               LET v == Navigate(inner, p)
               IN  /\ is_some(v)
                   /\ unwrap(v).position = p
                   /\ VecTreeView_current_depth(unwrap(v)) = Len(p)
                   /\ VecTreeView_is_root(unwrap(v)) <=> Len(p) = 0
                   /\ VecTreeView_max_depth(inner, unwrap(v)) = depth(inner) - 1
                   /\ VecTreeView_is_leaf(inner, unwrap(v)) <=> Len(p) = depth(inner) - 1
    /\ IsCall({"current_depth"}) => ret.out = Ret(Len(ret.pos))
    /\ IsCall({"is_root"}) => ret.out = Ret(Len(ret.pos) = 0)
    /\ IsCall({"max_depth"}) => ret.out = Ret(depth(inner) - 1)
    /\ IsCall({"is_leaf"}) => ret.out = Ret(Len(ret.pos) = depth(inner) - 1)

C17_Witness ==
    /\ IsCall({"is_leaf"})
    /\ depth(inner) = 3
    /\ Len(ret.pos) = 2
    /\ InRange(inner.data, ret.pos)
    /\ Navigate(inner, ret.pos) = Some(VecTreeView_new(ret.pos))
    /\ ret.out = Ret(TRUE)

(***************************************************************************)
(* C18: the backing nested Vec is write-once.  No step that leaves the     *)
(* tree alive (get, get_len, depth, inner, making, querying and dropping   *)
(* views, get_view, get_item, to_arrays, clone, drop, a failed try_unwrap) *)
(* changes it, so get_len and get answer for a given position, at every    *)
(* point between construction and reclaim, what they answer on the data    *)
(* the tree was constructed with.                                          *)
(***************************************************************************)
C18_WriteOnce ==
    [][ (Alive /\ Alive')
        => /\ inner' = inner
           /\ inner'.data = given.data
           /\ ret'.op = "get_len"
              => ret'.out = VecTree_get_len([inner EXCEPT !.data = given.data], ret'.arg)
           /\ ret'.op = "get"
              => ret'.out = VecTree_get([inner EXCEPT !.data = given.data], ret'.arg) ]_vars

C18_Witness ==
    /\ ret.op = "drop_view"
    /\ Alive
    /\ given.ctor = "new3d"
    /\ Len(given.data) = 2
    /\ inner.data = given.data
    /\ VecTree_get_len(inner, <<1, 1>>) = Ret(Some(2))

\* everything a caller can observe of a view: the outcome of each of its
\* methods, for every index
Observations(vti, view) ==
    [ current_depth |-> VecTreeView_current_depth(view),
      max_depth |-> VecTreeView_max_depth(vti, view),
      is_root |-> VecTreeView_is_root(view),
      is_leaf |-> VecTreeView_is_leaf(vti, view),
      len |-> VecTreeView_len(vti, view),
      get_view |-> [i \in Indices |-> VecTreeView_get_view(vti, view, i)],
      get_item |-> [i \in Indices |-> VecTreeView_get_item(vti, view, i)] ]

\* the outcome of the call recorded in ret, had it been made on this view
OutcomeOn(vti, view) ==
    CASE ret.op = "current_depth" -> Ret(VecTreeView_current_depth(view))
      [] ret.op = "max_depth" -> Ret(VecTreeView_max_depth(vti, view))
      [] ret.op = "is_root" -> Ret(VecTreeView_is_root(view))
      [] ret.op = "is_leaf" -> Ret(VecTreeView_is_leaf(vti, view))
      [] ret.op \in {"len", "SccGroup::len"} -> VecTreeView_len(vti, view)
      [] ret.op = "get_view" -> VecTreeView_get_view(vti, view, ret.arg)
      [] ret.op \in {"get_item", "SccGroup::get_item"} ->
           VecTreeView_get_item(vti, view, ret.arg)

(***************************************************************************)
(* C19: two views over the same tree with equal positions cannot be told   *)
(* apart, however and whenever each was made (VecTree::get with the        *)
(* position, or get_view from the root index by index; before or after     *)
(* other views were dropped): current_depth, max_depth, is_root, is_leaf,  *)
(* len, get_view(i) and get_item(i) have the same outcome (value, None or  *)
(* panic) on both, for every i.                                            *)
(***************************************************************************)
C19_EqualPositionsEqualViews ==
    Alive =>
      /\ Idle =>
         \A p \in SeqsUpTo(depth(inner) - 1) :
           LET direct == VecTree_get(inner, p).val
               chained == Navigate(inner, p)
           IN  /\ is_some(direct)
               /\ is_some(chained)
               /\ Observations(inner, unwrap(direct)) = Observations(inner, unwrap(chained))
      /\ ret.op \in {"current_depth", "max_depth", "is_root", "is_leaf", "len",
                     "SccGroup::len", "get_view", "get_item", "SccGroup::get_item"}
         => /\ ret.out = OutcomeOn(inner, unwrap(VecTree_get(inner, ret.pos).val))
            /\ ret.out = OutcomeOn(inner, unwrap(Navigate(inner, ret.pos)))

C19_Witness ==
    /\ IsCall({"len"})
    /\ depth(inner) = 3
    /\ Len(ret.pos) = 2
    /\ ret.pos[1] # ret.pos[2]
    /\ views[ret.pos] = 2
    /\ handles = 0
    /\ ret.out.tag = "ret"
    /\ ret.out = OutcomeOn(inner, unwrap(Navigate(inner, ret.pos)))

\* the depth the constructor that was called stands for (SccGroups::new calls
\* new2d)
CtorDepth ==
    CASE given.ctor = "new1d" -> 1
      [] given.ctor \in {"new2d", "SccGroups::new"} -> 2
      [] given.ctor = "new3d" -> 3

(***************************************************************************)
(* C20: for d = 1, 2, 3, a tree built by the constructor of depth d        *)
(* (new1d, new2d, new3d) reports depth() = d for as long as it lives,      *)
(* whatever its data is, empty Vecs included, and every view over it       *)
(* reports max_depth() = d - 1.                                            *)
(***************************************************************************)
C20_DepthIsConstructorDepth ==
    Alive =>
      /\ depth(inner) = CtorDepth
      /\ ret.op = "depth" => ret.out = Ret(CtorDepth)
      /\ ret.op = "max_depth" => ret.out = Ret(CtorDepth - 1)

C20_Witness ==
    /\ IsCall({"max_depth"})
    /\ given.ctor = "new2d"
    /\ given.data = <<>>
    /\ handles = 0
    /\ ret.out = Ret(1)

(***************************************************************************)
(* Directed cycles of a graph, by reachability along its edges.            *)
(***************************************************************************)
Successors(g, S) ==
    { g.edges[k][2] : k \in { j \in 1..Len(g.edges) : g.edges[j][1] \in S } }

\* the nodes reached from S along at most k further edges
RECURSIVE ReachedWithin(_, _, _)
ReachedWithin(g, S, k) ==
    IF k = 0 THEN S ELSE ReachedWithin(g, S \cup Successors(g, S), k - 1)

\* node x lies on a directed cycle: a walk of one edge or more leads from x
\* back to x
OnCycle(g, x) == x \in ReachedWithin(g, Successors(g, {x}), g.nodes)

HasCycle(g) == \E x \in 0..(g.nodes - 1) : OnCycle(g, x)

\* the place of node x in an order (0 when it is not listed)
PlaceIn(order, x) ==
    IF \E k \in 1..Len(order) : order[k] = x
    THEN CHOOSE k \in 1..Len(order) : order[k] = x
    ELSE 0

Queries ==
    {"depth", "get_len", "len", "get_item", "current_depth", "max_depth",
     "is_root", "is_leaf", "to_arrays", "SccGroups::len",
     "SccGroups::is_empty", "SccGroup::len", "SccGroup::get_item"}

\* the call that has just returned handed a view to the caller
HandsOutView(call) ==
    \/ call.op = "get" /\ call.out.tag = "View" /\ is_some(call.out.val)
    \/ call.op \in {"get_view", "get_group"}
          /\ call.out.tag = "ret" /\ is_some(call.out.val)

(***************************************************************************)
(* C23: holder accounting.  A handle clone and an inner() call add exactly *)
(* one holder to the shared tree; a lookup or get_child adds exactly one   *)
(* when it returns a view that the caller keeps and none otherwise; each   *)
(* drop removes exactly one; every other completed operation (depth,       *)
(* get_len, an Item lookup, current_depth, max_depth, is_root, is_leaf,    *)
(* length, get_item, to_arrays) leaves the number of holders as it was, so *)
(* a reclaim that would have succeeded before the query still succeeds     *)
(* after it.                                                               *)
(***************************************************************************)
C23_HolderAccounting ==
    [][ LET op == ret'.op
        IN  /\ op \in {"clone", "inner"} => strong' = strong + 1
            /\ op \in {"drop", "drop_rc", "drop_view"} => strong' = strong - 1
            /\ op \in {"get", "get_view", "get_group"} =>
                  IF views' # views
                  THEN /\ HandsOutView(ret')
                       /\ \E p \in ViewPositions :
                             views' = [views EXCEPT ![p] = @ + 1]
                       /\ strong' = strong + 1
                  ELSE strong' = strong
            /\ (op \in Queries /\ ret'.out.tag # "panic") =>
                  /\ strong' = strong
                  /\ <<handles, views, rcs>>' = <<handles, views, rcs>>
                  /\ Rc_try_unwrap(inner', strong').tag
                        = Rc_try_unwrap(inner, strong).tag
      ]_vars

\* max_depth or is_leaf has answered on a tree held by one handle and one
\* view
C23_Witness ==
    /\ ret.op \in {"max_depth", "is_leaf"}
    /\ ret.out.tag = "ret"
    /\ strong = 2
    /\ handles = 1
    /\ rcs = 0

(***************************************************************************)
(* C24: in the reference-counted SccGroups / SccGroup pair, SccGroups::get *)
(* returns a group exactly when the index is below the number of groups    *)
(* and undefined otherwise; every group obtained through it has an index   *)
(* below the number of groups for as long as it lives, the shared Vec      *)
(* staying alive and as it was given; SccGroup::get never reaches its      *)
(* "INTERNAL ERROR IN SCCGROUP" panic, and returns the node index when the *)
(* index is below the length of the group and undefined otherwise.         *)
(***************************************************************************)
C24_GroupIndexInRange ==
    /\ ret.op = "SccGroups::get" =>
          /\ ret.out.tag = "ret"
          /\ is_some(ret.out.val) <=> ret.arg < Len(given.data)
          /\ is_some(ret.out.val) => unwrap(ret.out.val).index = ret.arg
    /\ \A i \in Indices :
          groups[i] > 0 =>
             /\ Alive
             /\ inner.data = given.data
             /\ i < Len(inner.data)
    /\ ret.op = "SccGroup::get" =>
          LET i == ret.pos[1]
          IN  /\ ret.out.tag = "ret"
              /\ i < Len(given.data)
              /\ ret.out.val =
                    IF ret.arg < Len(given.data[i + 1])
                    THEN Some(NodeIndex_index(given.data[i + 1][ret.arg + 1]))
                    ELSE None

\* a group taken from the groups value outlives it and still answers
C24_Witness ==
    /\ ret.op = "SccGroup::get"
    /\ handles = 0
    /\ strong = 1
    /\ groups[1] = 1
    /\ ret.arg = 0
    /\ ret.out = Ret(Some(4))

=============================================================================
